---- MODULE Spec2Model ----
(***************************************************************************)
(* Model of the FlowTypingEngine of src/content.js: the typing-replay      *)
(* engine (text normalizer, formatting parser, pacing state machine and    *)
(* insertion executor) as an event-loop state machine.  One action is one  *)
(* macrotask of the JavaScript event loop: a command handler, a timer      *)
(* callback, or the continuation of an async function after an await.      *)
(***************************************************************************)
EXTENDS Integers, Sequences, FiniteSets, TLC

(***************************************************************************)
(* Bounds of the model.                                                    *)
(***************************************************************************)
\* number of startTyping commands explored in one behaviour
MaxStarts == 2
\* number of commands (start, stop, pause, resume) explored in one behaviour
MaxCommands == 3
\* the longest text of a run that is left alone (PlainSpec)
MaxPlainLen == 3
\* the draws of Math.random() are the multiples of 1 / RandomSteps in [0, 1)
RandomSteps == 8
\* the longest text over the whole alphabet that is normalized
MaxSymbolLen == 2
\* the longest text of letters, spaces, line feeds and zero-width characters
\* that is normalized
MaxParagraphLen == 6
\* the most segments (plain pieces, spans, dangling delimiters) of a text
\* that is parsed
MaxSegments == 3

(***************************************************************************)
(* Characters.  A text is a sequence of UTF-16 code units, each written as *)
(* a one-element string (or the name of its code point).                   *)
(***************************************************************************)
SP == " "
TAB == "\t"
LF == "\n"
CR == "\r"
NBSP == "U+00A0"
EMQUAD == "U+2001"
EMSPACE == "U+2003"
HAIRSPACE == "U+200A"
ZWSP == "U+200B"
ZWNJ == "U+200C"
ZWJ == "U+200D"
LSEP == "U+2028"
PSEP == "U+2029"
BOM == "U+FEFF"
ACUTE == "U+0301"
EACUTE == "U+00E9"
LSQUOTE == "U+2018"
RSQUOTE == "U+2019"
LDQUOTE == "U+201C"
RDQUOTE == "U+201D"
ENDASH == "U+2013"
EMDASH == "U+2014"
ELLIPSIS == "U+2026"
PRIME == "U+2032"
DPRIME == "U+2033"
BULLET == "U+2022"
TRIBULLET == "U+2023"
WHITEBULLET == "U+25E6"
HYPHENBULLET == "U+2043"
COPYRIGHT == "U+00A9"
REGISTERED == "U+00AE"
TRADEMARK == "U+2122"

\* the characters of the JavaScript regular-expression class \s that the
\* model's alphabet contains
JsWhitespace ==
    {SP, TAB, LF, CR, NBSP, EMQUAD, EMSPACE, HAIRSPACE, LSEP, PSEP, BOM}
\* the characters the regular-expression dot does not match
LineTerminators == {LF, CR, LSEP, PSEP}

(***************************************************************************)
(* Sequence helpers: String.prototype.replace with a global pattern.       *)
(***************************************************************************)
\* replace every character of class cls by the sequence repl
RECURSIVE ReplaceClass(_, _, _)
ReplaceClass(s, cls, repl) ==
    IF s = <<>> THEN <<>>
    ELSE (IF Head(s) \in cls THEN repl ELSE <<Head(s)>>)
         \o ReplaceClass(Tail(s), cls, repl)

\* length of the longest prefix of s whose characters are all in cls
RECURSIVE RunLength(_, _)
RunLength(s, cls) ==
    IF s = <<>> \/ Head(s) \notin cls THEN 0
    ELSE 1 + RunLength(Tail(s), cls)

\* s without its first n characters
Drop(s, n) == SubSeq(s, n + 1, Len(s))

\* position of the last character of class cls among the first n of s, or 0
RECURSIVE LastIn(_, _, _)
LastIn(s, cls, n) ==
    IF n = 0 THEN 0
    ELSE IF s[n] \in cls THEN n ELSE LastIn(s, cls, n - 1)

\* /[cls]+/g -> repl
RECURSIVE CollapseRuns(_, _, _)
CollapseRuns(s, cls, repl) ==
    IF s = <<>> THEN <<>>
    ELSE IF Head(s) \in cls
         THEN repl \o CollapseRuns(Drop(s, RunLength(s, cls)), cls, repl)
         ELSE <<Head(s)>> \o CollapseRuns(Tail(s), cls, repl)

\* /\r\n/g -> \n
RECURSIVE ReplaceCRLF(_)
ReplaceCRLF(s) ==
    IF s = <<>> THEN <<>>
    ELSE IF Len(s) >= 2 /\ s[1] = CR /\ s[2] = LF
         THEN <<LF>> \o ReplaceCRLF(Drop(s, 2))
         ELSE <<Head(s)>> \o ReplaceCRLF(Tail(s))

\* /\n\s*\n/g -> \n\n : from a line break, the greedy \s* takes the whole
\* run of whitespace that follows and backtracks to the last line break in it
RECURSIVE CollapseBlankLines(_)
CollapseBlankLines(s) ==
    IF s = <<>> THEN <<>>
    ELSE IF Head(s) = LF
         THEN LET rest == Tail(s)
                  run == RunLength(rest, JsWhitespace)
                  last == LastIn(rest, {LF}, run)
              IN  IF last > 0
                  THEN <<LF, LF>> \o CollapseBlankLines(Drop(rest, last))
                  ELSE <<LF>> \o CollapseBlankLines(rest)
         ELSE <<Head(s)>> \o CollapseBlankLines(Tail(s))

\* /[ \t]*\n[ \t]*/g -> \n
RECURSIVE StripAroundLineBreaks(_)
StripAroundLineBreaks(s) ==
    IF s = <<>> THEN <<>>
    ELSE LET lead == RunLength(s, {SP, TAB})
         IN  IF lead < Len(s) /\ s[lead + 1] = LF
             THEN LET after == Drop(s, lead + 1)
                  IN  <<LF>> \o StripAroundLineBreaks(
                                   Drop(after, RunLength(after, {SP, TAB})))
             ELSE <<Head(s)>> \o StripAroundLineBreaks(Tail(s))

\* s reversed
RECURSIVE Reverse(_)
Reverse(s) == IF s = <<>> THEN <<>> ELSE Reverse(Tail(s)) \o <<Head(s)>>

\* /^\s+|\s+$/g -> ''
TrimWhitespace(s) ==
    LET front == Drop(s, RunLength(s, JsWhitespace))
        back == RunLength(Reverse(front), JsWhitespace)
    IN  SubSeq(front, 1, Len(front) - back)

(***************************************************************************)
(* cleanAndNormalizeText                                                   *)
(***************************************************************************)
\* String.prototype.normalize('NFD') on the model's alphabet: e-acute
\* decomposes to e + U+0301, and the em quad to the em space
RECURSIVE NormalizeNFD(_)
NormalizeNFD(s) ==
    IF s = <<>> THEN <<>>
    ELSE (IF Head(s) = EACUTE THEN <<"e", ACUTE>>
          ELSE IF Head(s) = EMQUAD THEN <<EMSPACE>>
          ELSE <<Head(s)>>)
         \o NormalizeNFD(Tail(s))

\* step 2: line endings and paragraph breaks
NormalizeLineBreaks(s) ==
    CollapseBlankLines(ReplaceClass(ReplaceCRLF(s), {CR}, <<LF>>))

\* combining marks are left in the text
KeepCombiningMarks(s) == s

\* /[\u0300-\u036F]/g -> ''
RemoveCombiningMarks(s) == ReplaceClass(s, {ACUTE}, <<>>)

\* step 3: the substitution table, in the order of the source
SubstituteCharacters(s) ==
    LET q1 == ReplaceClass(s, {LSQUOTE, RSQUOTE}, <<"'">>)
        q2 == ReplaceClass(q1, {LDQUOTE, RDQUOTE}, <<"\"">>)
        d  == ReplaceClass(q2, {ENDASH, EMDASH}, <<"-">>)
        e  == ReplaceClass(d, {ELLIPSIS}, <<".", ".", ".">>)
        n  == ReplaceClass(e, {NBSP}, <<SP>>)
        w  == ReplaceClass(n, {EMQUAD, EMSPACE, HAIRSPACE, ZWSP, LSEP, PSEP},
                           <<SP>>)
        z  == ReplaceClass(w, {ZWSP, ZWNJ, ZWJ, BOM}, <<>>)
        c  == RemoveCombiningMarks(z)
        p  == ReplaceClass(c, {PRIME, DPRIME}, <<"\"">>)
        b  == ReplaceClass(p, {BULLET, TRIBULLET, WHITEBULLET, HYPHENBULLET},
                           <<"*">>)
        cr == ReplaceClass(b, {COPYRIGHT}, <<"(", "c", ")">>)
        rg == ReplaceClass(cr, {REGISTERED}, <<"(", "R", ")">>)
    IN  ReplaceClass(rg, {TRADEMARK}, <<"(", "T", "M", ")">>)

\* the end of step 3: space folding and trimming
FoldSpaces(s) ==
    TrimWhitespace(StripAroundLineBreaks(CollapseRuns(s, {SP, TAB}, <<SP>>)))

cleanAndNormalizeText(text) ==
    IF text = <<>> THEN <<>>
    ELSE FoldSpaces(SubstituteCharacters(NormalizeLineBreaks(NormalizeNFD(text))))

(***************************************************************************)
(* parseFormattingMarkers                                                  *)
(***************************************************************************)
\* Map.prototype.set
MapSet(m, k, v) == [x \in DOMAIN m \cup {k} |-> IF x = k THEN v ELSE m[x]]

\* an empty Map
EmptyMap == [x \in {} |-> [type |-> "bold", action |-> "start"]]

\* the lazy (.*?) followed by the closing marker cc: the first position
\* j >= from with s[j] = s[j+1] = c and no line terminator before it, or 0
RECURSIVE FindClose(_, _, _)
FindClose(s, j, c) ==
    IF j + 1 > Len(s) THEN 0
    ELSE IF s[j] = c /\ s[j + 1] = c THEN j
    ELSE IF s[j] \in LineTerminators THEN 0
    ELSE FindClose(s, j + 1, c)

\* one replace() pass over s for a doubled marker: /(cc)(.*?)\1/g with the
\* callback of the source; i is the scan position (1-based), offset the
\* callback's running offset, out the replaced text so far
RECURSIVE DoubledMarkerPass(_, _, _, _, _, _, _)
DoubledMarkerPass(s, markers, kind, i, offset, out, map) ==
    IF i > Len(s) THEN [cleanText |-> out, formattingMap |-> map]
    ELSE LET close == IF i + 1 <= Len(s) /\ s[i] \in markers /\ s[i + 1] = s[i]
                      THEN FindClose(s, i + 2, s[i]) ELSE 0
         IN  IF close > 0
             THEN LET content == SubSeq(s, i + 2, close - 1)
                      start == (i - 1) - offset
                      end == start + Len(content)
                      m1 == MapSet(map, start, [type |-> kind, action |-> "start"])
                      m2 == MapSet(m1, end, [type |-> kind, action |-> "end"])
                  IN  DoubledMarkerPass(s, markers, kind, close + 2, offset + 4,
                                        out \o content, m2)
             ELSE DoubledMarkerPass(s, markers, kind, i + 1, offset,
                                    out \o <<s[i]>>, map)

\* /(\*\*|__)(.*?)\1/g
BoldPass(s, map) == DoubledMarkerPass(s, {"*", "_"}, "bold", 1, 0, <<>>, map)

\* /~~(.*?)~~/g
UnderlinePass(s, map) == DoubledMarkerPass(s, {"~"}, "underline", 1, 0, <<>>, map)

\* /(?<!\*)\*([^*]+)\*(?!\*)|(?<!_)_([^_]+)_(?!_)/g : the position of the
\* closing marker of an italic span opening at i, or 0
ItalicClose(s, i) ==
    IF s[i] \notin {"*", "_"} THEN 0
    ELSE IF i > 1 /\ s[i - 1] = s[i] THEN 0
    ELSE LET c == s[i]
             run == RunLength(Drop(s, i), {x \in {s[k] : k \in 1..Len(s)} : x # c})
             j == i + 1 + run
         IN  IF run >= 1 /\ j <= Len(s) /\ (j = Len(s) \/ s[j + 1] # c)
             THEN j ELSE 0

RECURSIVE ItalicPass(_, _, _, _, _)
ItalicPass(s, i, offset, out, map) ==
    IF i > Len(s) THEN [cleanText |-> out, formattingMap |-> map]
    ELSE LET close == ItalicClose(s, i)
         IN  IF close > 0
             THEN LET content == SubSeq(s, i + 1, close - 1)
                      start == (i - 1) - offset
                      end == start + Len(content)
                      m1 == MapSet(map, start, [type |-> "italic", action |-> "start"])
                      m2 == MapSet(m1, end, [type |-> "italic", action |-> "end"])
                  IN  ItalicPass(s, close + 1, offset + 2, out \o content, m2)
             ELSE ItalicPass(s, i + 1, offset, out \o <<s[i]>>, map)

parseFormattingMarkers(text) ==
    LET bold == BoldPass(text, EmptyMap)
        italic == ItalicPass(bold.cleanText, 1, 0, <<>>, bold.formattingMap)
    IN  UnderlinePass(italic.cleanText, italic.formattingMap)

(***************************************************************************)
(* The engine: fields of FlowTypingEngine, the event loop, and the history *)
(* of what the engine did.                                                 *)
(***************************************************************************)
VARIABLES
    isTyping,         \* this.isTyping
    isPaused,         \* this.isPaused
    currentPosition,  \* this.currentPosition
    textToType,       \* this.textToType
    settings,         \* this.settings
    typingTimeout,    \* this.typingTimeout: a timer id, or NoTimeout
    editor,           \* this.editor
    formattingMap,    \* this.formattingMap
    timers,           \* pending setTimeout callbacks that call typeNextCharacter
    focusing,         \* startTyping invocations suspended in ensureEditorFocus
    steps,            \* typeNextCharacter invocations suspended at an await
    executed,         \* history: the instructions executed since the last
                      \* start (how many, and the last one)
    events,           \* history: the messages sent since the last start (how
                      \* many of each kind, and the last ones)
    runId,            \* history: number of startTyping commands received
    commands,         \* history: number of other commands received
    misuse,           \* history: since the last start a pause or resume was
                      \* issued outside its legal source state
    lifeAtStart,      \* history: life when the last start was received
    life,             \* history: state of the run as the commands and the
                      \* completion define it: idle, running, paused,
                      \* completed, errored, stopped
    call,             \* one typeCharacter call followed through its chain of
                      \* mechanisms (ChainSpec): its inputs and its locals
    timing,           \* one calculateDelay call (DelaySpec): its inputs and
                      \* what it returned
    cleaning,         \* one cleanAndNormalizeText call (NormalizeSpec): its
                      \* argument, what it returned, and what it returns for
                      \* that
    popup,            \* the popup controller and the content script as it
                      \* sees it (PopupSpec): the flags and buttons of
                      \* FlowPopup, its handlers suspended at an await, the
                      \* messages on their way to it
    pressing,         \* one simulateKeyPress call (KeyPressSpec): the page
                      \* it finds, and the events it dispatched
    parsing           \* one parseFormattingMarkers call (ParseSpec): its
                      \* argument as a sequence of segments, and what it
                      \* returned

runVars == <<textToType, settings, editor, formattingMap>>
historyVars == <<runId, commands, misuse, lifeAtStart>>
engineVars == <<isTyping, isPaused, currentPosition, textToType, settings,
                typingTimeout, editor, formattingMap, timers, focusing, steps,
                executed, events, runId, commands, misuse, lifeAtStart, life>>
callVars == <<call, timing, cleaning, parsing, popup, pressing>>
vars == <<engineVars, callVars>>

\* the null of this.typingTimeout; timer ids are positive
NoTimeout == 0
\* the null of this.editor
NoEditor == "null"
\* this.formattingMap when it is null or undefined
NoFormattingMap == [isMap |-> FALSE, entries |-> EmptyMap]

\* the settings the operator starts a run with: a text with a well-formed
\* italic span, a plain text, and a text whose stream is empty
Documents ==
    { [text |-> <<"*", "a", "*", ZWNJ>>, preserveFormatting |-> TRUE,
       typoSimulation |-> TRUE, singleMethod |-> "undefined"],
      [text |-> <<"a", EACUTE, SP>>, preserveFormatting |-> FALSE,
       typoSimulation |-> FALSE, singleMethod |-> "undefined"],
      [text |-> <<"*", CR, "*">>, preserveFormatting |-> TRUE,
       typoSimulation |-> FALSE, singleMethod |-> "undefined"] }
\* what findGoogleDocsEditor returns: an element, or null when even
\* document.body is missing
EditorInputs == {"element", NoEditor}

\* an instruction: op is insert (a character) or start / end (a format
\* toggle), pos the cursor it was read at, run the run whose chain of ticks
\* executed it, at the run that was current when it was executed
Instruction(op, ch, pos, run) ==
    [op |-> op, ch |-> ch, pos |-> pos, run |-> run, at |-> runId]
NoInstruction == [op |-> "none", ch |-> "", pos |-> 0, run |-> 0, at |-> 0]
NothingExecuted ==
    [inserts |-> 0, last |-> NoInstruction,
     toggles |-> 0, lastToggle |-> NoInstruction]

Message(action, current, total) ==
    [action |-> action, current |-> current, total |-> total]
NoMessage == Message("none", 0, 0)
NothingSent ==
    [sent |-> 0, last |-> NoMessage, progress |-> 0,
     lastProgress |-> NoMessage, completes |-> 0]

\* the engine state one event-loop task transforms, as a record
Engine ==
    [isTyping |-> isTyping, isPaused |-> isPaused,
     currentPosition |-> currentPosition, typingTimeout |-> typingTimeout,
     timers |-> timers, steps |-> steps, executed |-> executed,
     events |-> events, life |-> life]

\* the task leaves the engine in state e
Becomes(e) ==
    /\ isTyping' = e.isTyping
    /\ isPaused' = e.isPaused
    /\ currentPosition' = e.currentPosition
    /\ typingTimeout' = e.typingTimeout
    /\ timers' = e.timers
    /\ steps' = e.steps
    /\ executed' = e.executed
    /\ events' = e.events
    /\ life' = e.life

\* the history of messages after one more
Sent(ev, m) ==
    [sent |-> ev.sent + 1,
     last |-> m,
     progress |-> ev.progress + (IF m.action = "updateProgress" THEN 1 ELSE 0),
     lastProgress |-> IF m.action = "updateProgress" THEN m ELSE ev.lastProgress,
     completes |-> ev.completes + (IF m.action = "typingComplete" THEN 1 ELSE 0)]

\* sendMessage
sendMessage(e, m) == [e EXCEPT !.events = Sent(@, m)]

\* the history of instructions after one more
Did(ex, ins) ==
    IF ins.op = "insert"
    THEN [ex EXCEPT !.inserts = @ + 1, !.last = ins]
    ELSE [ex EXCEPT !.toggles = @ + 1, !.lastToggle = ins]

\* setTimeout: an id no pending timer has and typingTimeout does not hold
FreshId(used) == CHOOSE n \in 1..(Cardinality(used) + 1) : n \notin used

TimerIds(e) == {t.id : t \in e.timers} \cup {e.typingTimeout}

\* clearTimeout(this.typingTimeout); this.typingTimeout = null
clearTypingTimeout(e) ==
    IF e.typingTimeout # NoTimeout
    THEN [e EXCEPT !.timers = {t \in @ : t.id # e.typingTimeout},
                   !.typingTimeout = NoTimeout]
    ELSE e

(***************************************************************************)
(* completeTyping, stopTyping, pauseTyping                                 *)
(***************************************************************************)
completeTyping(e) ==
    LET e1 == [e EXCEPT !.isTyping = FALSE, !.isPaused = FALSE]
        e2 == clearTypingTimeout(e1)
    IN  sendMessage([e2 EXCEPT !.life = "completed"],
                    Message("typingComplete", 0, 0))

stopTyping(e) ==
    LET e1 == [e EXCEPT !.isTyping = FALSE, !.isPaused = FALSE]
        e2 == clearTypingTimeout(e1)
    IN  sendMessage([e2 EXCEPT !.life = "stopped"],
                    Message("typingStopped", 0, 0))

pauseTyping(e) == clearTypingTimeout([e EXCEPT !.isPaused = TRUE])

(***************************************************************************)
(* typeNextCharacter and what it awaits.  A suspended invocation is a      *)
(* record of steps: pc names the await it is suspended at, char is its     *)
(* local, pos and run say which instruction of which run's chain of ticks  *)
(* it is executing.                                                        *)
(***************************************************************************)
Suspended(e, pc, char, pos, run) ==
    [e EXCEPT !.steps = @ \cup
        {[id |-> FreshId({s.id : s \in e.steps}), pc |-> pc, char |-> char,
          pos |-> pos, run |-> run]}]

\* a cursor that skips an instruction
NextPositionSkipping(p) == p + 2

\* the position after one instruction
NextPosition(p) == p + 1

\* typeNextCharacter from the increment of currentPosition to its end
finishStep(e, run) ==
    LET e1 == [e EXCEPT !.currentPosition = NextPosition(@)]
        e2 == sendMessage(e1, Message("updateProgress", e1.currentPosition,
                                      Len(textToType)))
        id == FreshId(TimerIds(e2))
    IN  [e2 EXCEPT !.typingTimeout = id,
                   !.timers = @ \cup {[id |-> id, run |-> run]}]

\* typeCharacter up to its first await
typeCharacter(e, char, pos, run) ==
    IF editor = NoEditor
    THEN finishStep(e, run)
    ELSE Suspended(e, "focus", char, pos, run)

\* handleFormatting and applyFormatting up to the first await; toggle is
\* the outcome of dispatching the shortcut's key event
handleFormatting(e, char, pos, run, toggle) ==
    IF formattingMap.isMap /\ pos \in DOMAIN formattingMap.entries
    THEN LET format == formattingMap.entries[pos]
         IN  IF toggle = "throw"
             THEN typeCharacter(e, char, pos, run)
             ELSE Suspended(
                    [e EXCEPT !.executed =
                        Did(@, Instruction(format.action, format.type, pos, run))],
                    "settle", char, pos, run)
    ELSE typeCharacter(e, char, pos, run)

\* the guard of typeNextCharacter: the tick does nothing
TickSuppressed(typing, paused) == ~typing \/ paused

\* the character typeNextCharacter reads
ReadChar(text, pos) == text[pos + 1]

\* the keystroke sequences a step may type for the character it read: the
\* step schedules the next one straight after the character ("Skip typo
\* simulation - no mistakes"); settings.typoSimulation is never read
Keystrokes(char, typoSimulation) == {<<char>>}

typeNextCharacter(e, run, toggle) ==
    IF TickSuppressed(e.isTyping, e.isPaused) THEN e
    ELSE IF e.currentPosition >= Len(textToType) THEN completeTyping(e)
    ELSE LET char == ReadChar(textToType, e.currentPosition)
         IN  IF settings.preserveFormatting
             THEN handleFormatting(e, char, e.currentPosition, run, toggle)
             ELSE typeCharacter(e, char, e.currentPosition, run)

\* resumeTyping calls typeNextCharacter
ResumeTypes(typing, pos, len) == typing /\ pos < len

resumeTyping(e, toggle) ==
    LET e1 == [e EXCEPT !.isPaused = FALSE]
    IN  IF ResumeTypes(e1.isTyping, e1.currentPosition, Len(textToType))
        THEN typeNextCharacter(e1, runId, toggle)
        ELSE e1

(***************************************************************************)
(* typeCharacter: what decides where the chain of mechanisms awaits        *)
(***************************************************************************)
\* outcomes of document.execCommand and of the format shortcut's dispatch
ExecOutcomes == {"true", "false", "throw"}
ToggleOutcomes == {"dispatched", "throw"}
\* outcomes of navigator.clipboard.writeText, of execCommand('paste'), of
\* simulateKeyPress and of the input event's dispatch
WriteOutcomes == {"resolved", "rejected"}
PasteOutcomes == {"true", "false", "throw"}
KeyOutcomes == {"returned", "throw"}
InputOutcomes == {"dispatched", "throw"}
\* values of settings.singleMethod
SingleMethodInputs == {"undefined", "true", "false"}

\* single method mode only on request
UseSingleMethodIfTrue(singleMethod) == singleMethod = "true"

\* useSingleMethod
UseSingleMethod(singleMethod) == singleMethod # "false"

\* the locals of a typeCharacter call when the chain begins; pc is where
\* the call is: running, clipboard (awaiting the write), returned, threw
NewCall(char, singleMethod) ==
    [char |-> char, useSingleMethod |-> UseSingleMethod(singleMethod),
     typingSucceeded |-> FALSE, methodsAttempted |-> <<>>, pc |-> "running"]

\* a mechanism is attempted
Attempted(c, method) == [c EXCEPT !.methodsAttempted = Append(@, method)]

\* a mechanism reported success: typingSucceeded, and the early return of
\* single method mode
Succeeded(c) ==
    [c EXCEPT !.typingSucceeded = TRUE,
              !.pc = IF c.useSingleMethod THEN "returned" ELSE @]

\* an exception that leaves typeCharacter
EscapesUnguarded(outcome, guarded) == outcome \in {"throw", "rejected"}

\* an exception thrown by a mechanism leaves typeCharacter: every
\* mechanism is inside a try / catch
Escapes(outcome, guarded) == outcome \in {"throw", "rejected"} /\ ~guarded

\* the outcome of a mechanism's try block
Tried(c, outcome, success) ==
    IF Escapes(outcome, TRUE) THEN [c EXCEPT !.pc = "threw"]
    ELSE IF outcome = success THEN Succeeded(c)
    ELSE c

\* method 1: execCommand
methodOne(c, exec) ==
    IF c.pc = "running" /\ ~c.typingSucceeded
    THEN Tried(Attempted(c, "execCommand"), exec, "true")
    ELSE c

\* method 2 for line breaks too
AwaitsClipboardForEnter(typingSucceeded, isEnter, clipboardAvailable) ==
    ~typingSucceeded /\ clipboardAvailable

\* method 2 is entered and awaits navigator.clipboard.writeText
AwaitsClipboard(typingSucceeded, isEnter, clipboardAvailable) ==
    ~typingSucceeded /\ ~isEnter /\ clipboardAvailable

\* method 2 up to its await
awaitClipboard(c) == [Attempted(c, "clipboard") EXCEPT !.pc = "clipboard"]

\* method 2 after its await: the paste
methodTwo(c, write, paste) ==
    LET c1 == [c EXCEPT !.pc = "running"]
    IN  IF write = "resolved" THEN Tried(c1, paste, "true")
        ELSE Tried(c1, write, "resolved")

\* method 3 is attempted
AttemptsKeyboard(typingSucceeded, useSingleMethod) ==
    ~typingSucceeded \/ ~useSingleMethod

\* method 3: simulateKeyPress
methodThree(c, key) ==
    IF c.pc = "running" /\ AttemptsKeyboard(c.typingSucceeded, c.useSingleMethod)
    THEN Tried(Attempted(c, "keyboardEvents"), key, "returned")
    ELSE c

\* method 4 is attempted whenever nothing has succeeded
AttemptsInputUnlessSucceeded(typingSucceeded, useSingleMethod) ==
    ~typingSucceeded

\* method 4 is attempted
AttemptsInput(typingSucceeded, useSingleMethod) ==
    ~useSingleMethod /\ ~typingSucceeded

\* method 4: the input event, and the return of typeCharacter
methodFour(c, input) ==
    IF c.pc = "running"
    THEN LET c1 == IF AttemptsInput(c.typingSucceeded, c.useSingleMethod)
                   THEN Tried(Attempted(c, "inputEvents"), input, "none")
                   ELSE c
         IN  IF c1.pc = "running" THEN [c1 EXCEPT !.pc = "returned"] ELSE c1
    ELSE c

\* typeCharacter from the end of its first await to the await of method 2,
\* to an early return, or to method 3
afterFocus(char, singleMethod, exec, clipboardAvailable) ==
    LET c == methodOne(NewCall(char, singleMethod), exec)
    IN  IF c.pc = "running"
           /\ AwaitsClipboard(c.typingSucceeded, char = LF, clipboardAvailable)
        THEN awaitClipboard(c)
        ELSE c

\* methods 3 and 4 and the return
chainEnd(c, key, input) == methodFour(methodThree(c, key), input)

\* the call of a step that is suspended at the await of method 2
SuspendedCall(char, singleMethod) == afterFocus(char, singleMethod, "false", TRUE)

\* no call is followed
NoCall ==
    [char |-> "", singleMethod |-> "undefined", exec |-> "true",
     clipboardAvailable |-> FALSE, write |-> "resolved", paste |-> "true",
     key |-> "returned", input |-> "dispatched",
     locals |-> [NewCall("", "undefined") EXCEPT !.pc = "none"]]

\* the characters of the calls that are followed: a letter and a line break
ChainChars == {"a", LF}

\* a typeCharacter call suspended at its first await, with the outcome each
\* mechanism will have if it is attempted
ChainInputs ==
    [char : ChainChars, singleMethod : SingleMethodInputs,
     exec : ExecOutcomes, clipboardAvailable : BOOLEAN,
     write : WriteOutcomes, paste : PasteOutcomes, key : KeyOutcomes,
     input : InputOutcomes,
     locals : {[NewCall("", "undefined") EXCEPT !.pc = "focus"]}]

(***************************************************************************)
(* calculateDelay.  A JavaScript number that is a quotient of integers is  *)
(* a record of its numerator and its positive denominator.                 *)
(***************************************************************************)
\* the range of the speed slider
MinWpm == 10
MaxWpm == 200

Number(n, d) == [num |-> n, den |-> d]
Times(a, b) == Number(a.num * b.num, a.den * b.den)
Plus(a, b) == Number(a.num * b.den + b.num * a.den, a.den * b.den)
Minus(a, b) == Number(a.num * b.den - b.num * a.den, a.den * b.den)
\* a >= b
AtLeast(a, b) == a.num * b.den >= b.num * a.den
\* Math.max
MathMax(a, b) == IF AtLeast(a, b) THEN a ELSE b

\* the values Math.random() returns, in [0, 1)
RandomDraws == {Number(j, RandomSteps) : j \in 0..(RandomSteps - 1)}

\* a delay that is returned as computed
Unclamped(delay) == delay

\* Math.max(50, delay)
Clamped(delay) == MathMax(Number(50, 1), delay)

\* milliseconds per word
baseDelayPerWord(wpm) == Number(60000, wpm)

\* baseDelay: milliseconds per character, at five characters a word
baseDelay(wpm) == Number(60000, wpm * 5)

\* a variation of up to 50% either way
HalfVariation(random) == Minus(random, Number(1, 2))

\* variation: (Math.random() - 0.5) * 0.6, up to 30% either way
Variation(random) == Times(Minus(random, Number(1, 2)), Number(6, 10))

calculateDelay(wpm, naturalVariations, random) ==
    IF naturalVariations
    THEN LET variation == Variation(random)
         IN  Clamped(Times(baseDelay(wpm), Plus(Number(1, 1), variation)))
    ELSE Clamped(baseDelay(wpm))

\* no calculateDelay call is followed
NoTiming ==
    [wpm |-> 60, naturalVariations |-> FALSE, random |-> Number(0, 1),
     pc |-> "none", result |-> Number(0, 1)]

\* a calculateDelay call about to be made: the settings of the run and the
\* draw Math.random() will return
DelayInputs ==
    [wpm : MinWpm..MaxWpm, naturalVariations : BOOLEAN, random : RandomDraws,
     pc : {"called"}, result : {Number(0, 1)}]

\* no cleanAndNormalizeText call is followed
NoCleaning == [text |-> <<>>, pc |-> "none", once |-> <<>>, twice |-> <<>>]

\* the code points the substitution table replaces or removes, and \r
SubstitutedCharacters ==
    {LSQUOTE, RSQUOTE, LDQUOTE, RDQUOTE, ENDASH, EMDASH, ELLIPSIS, NBSP,
     EMQUAD, EMSPACE, HAIRSPACE, ZWSP, ZWNJ, ZWJ, LSEP, PSEP, BOM, ACUTE,
     PRIME, DPRIME, BULLET, TRIBULLET, WHITEBULLET, HYPHENBULLET, COPYRIGHT,
     REGISTERED, TRADEMARK, CR}

\* the texts that are normalized: the short texts over the whole alphabet,
\* and the longer texts of letters, spaces, line feeds and a zero-width
\* character
SymbolAlphabet == SubstitutedCharacters \cup {"a", SP, TAB, LF, EACUTE, "*"}
ParagraphAlphabet == {"a", SP, LF, ZWNJ}
CleaningTexts ==
    UNION {[1..k -> SymbolAlphabet] : k \in 0..MaxSymbolLen}
    \cup UNION {[1..k -> ParagraphAlphabet] : k \in 0..MaxParagraphLen}

\* a cleanAndNormalizeText call about to be made
CleaningInputs ==
    [text : CleaningTexts, pc : {"called"}, once : {<<>>}, twice : {<<>>}]

\* no parseFormattingMarkers call is followed
NoParsing ==
    [segments |-> <<>>, pc |-> "none",
     result |-> [cleanText |-> <<>>, formattingMap |-> EmptyMap]]

\* the delimiters of the three marker grammars, and the kind each one marks
Delimiters == {<<"*", "*">>, <<"_", "_">>, <<"*">>, <<"_">>, <<"~", "~">>}
KindOf(delim) ==
    IF delim \in {<<"*", "*">>, <<"_", "_">>} THEN "bold"
    ELSE IF delim \in {<<"*">>, <<"_">>} THEN "italic"
    ELSE "underline"

\* a text is written as a sequence of segments: a plain piece, a span (a
\* delimiter, a content without marker characters, the same delimiter), or
\* a dangling delimiter that nothing closes; a one-character delimiter
\* encloses at least one character
PlainPieces == {<<"H", "i", SP>>, <<SP, "t", "h", "e", "r", "e">>}
SpanContents == {<<>>, <<"b", "o", "l", "d">>, <<"b", LF, "c">>}
Segments ==
    [kind : {"plain"}, delim : {<<>>}, content : PlainPieces]
    \cup {seg \in [kind : {"span"}, delim : Delimiters, content : SpanContents] :
            Len(seg.delim) = 2 \/ seg.content # <<>>}
    \cup [kind : {"open"}, delim : Delimiters, content : {<<>>}]

\* a span and a plain piece
Span(delim, content) == [kind |-> "span", delim |-> delim, content |-> content]
Plain(content) == [kind |-> "plain", delim |-> <<>>, content |-> content]

\* the characters of a segment, and the characters of a text
SegmentText(seg) ==
    IF seg.kind = "span" THEN seg.delim \o seg.content \o seg.delim
    ELSE seg.delim \o seg.content
RECURSIVE TextOf(_)
TextOf(segments) ==
    IF segments = <<>> THEN <<>>
    ELSE SegmentText(Head(segments)) \o TextOf(Tail(segments))

\* the texts that are parsed
ParsingTexts == UNION {[1..k -> Segments] : k \in 0..MaxSegments}

\* a parseFormattingMarkers call about to be made
ParsingInputs ==
    [segments : ParsingTexts, pc : {"called"}, result : {NoParsing.result}]

(***************************************************************************)
(* The popup controller (FlowPopup) and the content script it talks to     *)
(***************************************************************************)
\* bounds: the clicks on the buttons of the popup, and the messages of the
\* engine that are on their way to the popup
MaxClicks == 3
MaxInbox == 2

\* updateUI: Start is disabled while running, Stop and Pause while not
updateUI(p) ==
    [p EXCEPT !.startDisabled = p.isRunning,
              !.stopDisabled = ~p.isRunning,
              !.pauseDisabled = ~p.isRunning]

\* the messages that end a run
TerminalMessages == {"typingComplete", "typingError", "typingStopped"}

\* handleMessage
handleMessage(p, action) ==
    IF action \in TerminalMessages
    THEN updateUI([p EXCEPT !.isRunning = FALSE, !.isPaused = FALSE,
                            !.settled = TRUE])
    ELSE p

\* a handler of the popup suspended at an await: at chrome.tabs.query
\* (query), at chrome.tabs.sendMessage before the content script has the
\* message (send), after it has answered (responded) or after the send
\* failed (rejected)
Handler(id, name, pc, action) ==
    [id |-> id, name |-> name, pc |-> pc, action |-> action]

\* a click on a button that is enabled starts its handler
Clicked(p, name) ==
    [p EXCEPT !.clicks = @ + 1,
              !.handlers = @ \cup {Handler(p.clicks + 1, name, "query", "")}]

\* the handler goes on in place of the one that was suspended
GoesOn(p, h, pc, action) ==
    [p EXCEPT !.handlers = (@ \ {h}) \cup {Handler(h.id, h.name, pc, action)}]

\* togglePause: the command is chosen when the message is built, after the
\* await of the query
PauseOrResume(paused) == IF paused THEN "resumeTyping" ELSE "pauseTyping"

\* the handler after chrome.tabs.query: startFlow returns when the tab is
\* not a Google Docs page; otherwise the command is built and sent
afterQuery(p, h, onDocs) ==
    IF h.name = "startFlow"
    THEN IF onDocs THEN GoesOn(p, h, "send", "startTyping")
         ELSE [p EXCEPT !.handlers = @ \ {h}]
    ELSE IF h.name = "stopFlow" THEN GoesOn(p, h, "send", "stopTyping")
    ELSE GoesOn(p, h, "send", PauseOrResume(p.isPaused))

\* the engine sends a message to the popup
Posted(p, action) == [p EXCEPT !.inbox = Append(@, action)]

\* the message listener of the content script, as the popup can observe the
\* engine: idle, typing, paused, or errored (no editor was found)
listener(p, action, editorFound) ==
    CASE action = "startTyping" ->
           IF editorFound THEN [p EXCEPT !.engine = "typing"]
           ELSE Posted([p EXCEPT !.engine = "errored"], "typingError")
      [] action = "stopTyping" ->
           Posted([p EXCEPT !.engine = "idle"], "typingStopped")
      [] action = "pauseTyping" ->
           [p EXCEPT !.engine = IF @ = "typing" THEN "paused" ELSE @]
      [] OTHER ->
           [p EXCEPT !.engine = IF @ = "paused" THEN "typing" ELSE @]

\* the handler after chrome.tabs.sendMessage
afterSend(p, h) ==
    LET p1 == [p EXCEPT !.handlers = @ \ {h}]
    IN  IF h.name = "stopFlow"
        THEN updateUI([p1 EXCEPT !.isRunning = FALSE, !.isPaused = FALSE])
        ELSE IF h.pc = "rejected" THEN p1
        ELSE IF h.name = "startFlow"
        THEN updateUI([p1 EXCEPT !.isRunning = TRUE, !.isPaused = FALSE,
                                 !.settled = FALSE])
        ELSE updateUI([p1 EXCEPT !.isPaused = ~@])

\* the popup as it is constructed: not running, not paused, Stop and Pause
\* disabled as updateUI leaves them when nothing runs
NewPopup ==
    [isRunning |-> FALSE, isPaused |-> FALSE,
     startDisabled |-> FALSE, stopDisabled |-> TRUE, pauseDisabled |-> TRUE,
     handlers |-> {}, inbox |-> <<>>, engine |-> "idle", clicks |-> 0,
     settled |-> FALSE]

\* no popup is followed
NoPopup == [NewPopup EXCEPT !.clicks = MaxClicks]

(***************************************************************************)
(* simulateKeyPress                                                        *)
(***************************************************************************)
\* the three events of a key, in the order they are dispatched
KeyEvents == <<"keydown", "keypress", "keyup">>

\* what this.editor is: null, an iframe, or another element
EditorTags == {"null", "IFRAME", "DIV"}

\* the frame of an editor iframe: its contentDocument (with a body, without
\* one, or null) and its contentWindow (of the same origin, of another
\* origin, whose properties throw when read, or null)
Frames ==
    { [contentDocument |-> "body", contentWindow |-> "window"],
      [contentDocument |-> "noBody", contentWindow |-> "window"],
      [contentDocument |-> "null", contentWindow |-> "crossOrigin"],
      [contentDocument |-> "null", contentWindow |-> "null"] }

\* the first try block: the target found through the editor iframe, "none"
\* when there is none or when reading the frame throws
IframeTarget(tag, frame) ==
    IF tag # "IFRAME" THEN "none"
    ELSE LET iframeWin == frame.contentWindow
             iframeDoc == IF frame.contentDocument # "null"
                          THEN frame.contentDocument
                          ELSE IF iframeWin = "null" THEN "null"
                          ELSE IF iframeWin = "crossOrigin" THEN "throws"
                          ELSE "null"
         IN  IF iframeDoc = "throws" THEN "none"
             ELSE IF iframeDoc = "body" THEN "iframeBody"
             ELSE IF iframeWin = "window" THEN "iframeWindow"
             ELSE "none"

\* a target chosen without looking at the editor
LastResort(tag, frame, activeElement) ==
    IF activeElement # "null" THEN "activeElement" ELSE "document"

\* dispatchTarget: the iframe's, else document.activeElement || document
dispatchTarget(tag, frame, activeElement) ==
    IF IframeTarget(tag, frame) # "none" THEN IframeTarget(tag, frame)
    ELSE IF activeElement # "null" THEN "activeElement" ELSE "document"

\* the second try block: the events are dispatched in order until a
\* dispatch throws (fails is its number, 0 when none does)
dispatchEvents(target, fails) ==
    [i \in 1..(IF fails = 0 THEN 3 ELSE fails - 1) |->
        [type |-> KeyEvents[i], target |-> target]]

simulateKeyPress(k) ==
    [k EXCEPT !.dispatched =
                 dispatchEvents(dispatchTarget(k.editor, k.frame,
                                               k.activeElement), k.fails),
              !.pc = "returned"]

\* no simulateKeyPress call is followed
NoPressing ==
    [key |-> "a", editor |-> "null",
     frame |-> [contentDocument |-> "null", contentWindow |-> "null"],
     activeElement |-> "null", fails |-> 0, pc |-> "none", dispatched |-> <<>>]

\* a simulateKeyPress call about to be made: the key, the editor and its
\* frame, the focused element, and the dispatch that will throw
KeyPressInputs ==
    [key : {"a", "Enter"}, editor : EditorTags, frame : Frames,
     activeElement : {"element", "null"}, fails : 0..3, pc : {"called"},
     dispatched : {<<>>}]

(***************************************************************************)
(* Actions: one per event-loop task                                        *)
(***************************************************************************)
EngineInit ==
    /\ isTyping = FALSE
    /\ isPaused = FALSE
    /\ currentPosition = 0
    /\ textToType = <<>>
    /\ settings = [text |-> <<>>, preserveFormatting |-> FALSE,
                   typoSimulation |-> FALSE, singleMethod |-> "undefined"]
    /\ typingTimeout = NoTimeout
    /\ editor = NoEditor
    /\ formattingMap = NoFormattingMap
    /\ timers = {}
    /\ focusing = {}
    /\ steps = {}
    /\ executed = NothingExecuted
    /\ events = NothingSent
    /\ runId = 0
    /\ commands = 0
    /\ misuse = FALSE
    /\ lifeAtStart = "idle"
    /\ life = "idle"

Init ==
    /\ EngineInit
    /\ call = NoCall
    /\ timing = NoTiming
    /\ cleaning = NoCleaning
    /\ parsing = NoParsing
    /\ popup = NoPopup
    /\ pressing = NoPressing

\* the settings a start command carries: any document for the first start;
\* a later start repeats the settings of the first (the operator restarts
\* the same document)
StartInputs == IF runId = 0 THEN Documents ELSE {settings}

\* one more command may be received
CommandAllowed == runId + commands < MaxCommands

\* the message 'startTyping': startTyping up to await ensureEditorFocus()
StartTyping(st, ed) ==
    /\ CommandAllowed
    /\ runId < MaxStarts
    /\ settings' = st
    /\ IF st.preserveFormatting
       THEN LET parsed == parseFormattingMarkers(st.text)
            IN  /\ textToType' = cleanAndNormalizeText(parsed.cleanText)
                /\ formattingMap' = [isMap |-> TRUE,
                                     entries |-> parsed.formattingMap]
       ELSE /\ textToType' = cleanAndNormalizeText(st.text)
            /\ formattingMap' = NoFormattingMap
    /\ currentPosition' = 0
    /\ isTyping' = TRUE
    /\ isPaused' = FALSE
    /\ editor' = ed
    /\ IF ed = NoEditor
       THEN /\ events' = Sent(NothingSent, Message("typingError", 0, 0))
            /\ life' = "errored"
            /\ focusing' = focusing
       ELSE /\ events' = NothingSent
            /\ life' = "running"
            /\ focusing' = focusing \cup {runId + 1}
    /\ executed' = NothingExecuted
    /\ runId' = runId + 1
    /\ misuse' = FALSE
    /\ lifeAtStart' = life
    /\ UNCHANGED <<typingTimeout, timers, steps, commands>>
    /\ UNCHANGED callVars

\* startTyping after ensureEditorFocus(): the 100 ms timer, which
\* typingTimeout does not record
FocusEstablished(r) ==
    /\ r \in focusing
    /\ focusing' = focusing \ {r}
    /\ timers' = timers \cup {[id |-> FreshId(TimerIds(Engine)), run |-> r]}
    /\ UNCHANGED <<isTyping, isPaused, currentPosition, typingTimeout, steps,
                   executed, events, life>>
    /\ UNCHANGED historyVars
    /\ UNCHANGED runVars
    /\ UNCHANGED callVars

\* a pending timer fires: its callback calls typeNextCharacter
TimerFires(t, toggle) ==
    /\ t \in timers
    /\ Becomes(typeNextCharacter([Engine EXCEPT !.timers = @ \ {t}],
                                 t.run, toggle))
    /\ UNCHANGED focusing
    /\ UNCHANGED historyVars
    /\ UNCHANGED runVars
    /\ UNCHANGED callVars

\* the message 'stopTyping'
StopTyping ==
    /\ CommandAllowed
    /\ Becomes(stopTyping(Engine))
    /\ commands' = commands + 1
    /\ UNCHANGED <<focusing, runId, misuse, lifeAtStart>>
    /\ UNCHANGED runVars
    /\ UNCHANGED callVars

\* a pause command is received: pauseTyping, and the pause as the pacing
\* state machine's contract sees it (legal only from running)
PauseCommand ==
    /\ Becomes([pauseTyping(Engine) EXCEPT
                   !.life = IF @ = "running" THEN "paused" ELSE @])
    /\ misuse' = (misuse \/ life # "running")
    /\ commands' = commands + 1
    /\ UNCHANGED <<focusing, runId, lifeAtStart>>
    /\ UNCHANGED runVars
    /\ UNCHANGED callVars

\* a resume command is received: resumeTyping, and the resume as the
\* contract sees it (legal only from paused)
ResumeCommand(toggle) ==
    /\ Becomes(resumeTyping([Engine EXCEPT
                   !.life = IF @ = "paused" THEN "running" ELSE @], toggle))
    /\ misuse' = (misuse \/ life # "paused")
    /\ commands' = commands + 1
    /\ UNCHANGED <<focusing, runId, lifeAtStart>>
    /\ UNCHANGED runVars
    /\ UNCHANGED callVars

\* the message 'pauseTyping'
PauseTyping ==
    /\ CommandAllowed
    /\ PauseCommand

\* the message 'resumeTyping'
ResumeTyping(toggle) ==
    /\ CommandAllowed
    /\ ResumeCommand(toggle)

\* the mini player's pause button: togglePause
TogglePause(toggle) ==
    /\ CommandAllowed
    /\ IF isPaused THEN ResumeCommand(toggle) ELSE PauseCommand

\* handleFormatting after applyFormatting's settle delay: typeCharacter
SettleElapsed(s) ==
    /\ s \in steps
    /\ s.pc = "settle"
    /\ Becomes(typeCharacter([Engine EXCEPT !.steps = @ \ {s}],
                             s.char, s.pos, s.run))
    /\ UNCHANGED focusing
    /\ UNCHANGED historyVars
    /\ UNCHANGED runVars
    /\ UNCHANGED callVars

\* the character of step s is inserted by one of the mechanisms
inserted(e, s) ==
    [e EXCEPT !.executed = Did(@, Instruction("insert", s.char, s.pos, s.run))]

\* the typeCharacter call c of step s has ended: if it returned, the rest
\* of typeNextCharacter; if it threw, typeNextCharacter ends with it
stepEnds(e, s, c) ==
    IF c.pc = "threw" THEN e ELSE finishStep(inserted(e, s), s.run)

\* methods 3 and 4 of the call c of step s, and what follows the call
ChainEnds(e, s, c) ==
    IF c.pc = "running"
    THEN \E key \in KeyOutcomes, input \in InputOutcomes :
            Becomes(stepEnds(e, s, chainEnd(c, key, input)))
    ELSE Becomes(stepEnds(e, s, c))

\* typeCharacter after ensureGoogleDocsFocus(): method 1, then either the
\* await of the clipboard write, or the insertion (by method 1, 3 or 4), the
\* return and the rest of typeNextCharacter
FocusAwaited(s, exec, clipboardAvailable) ==
    /\ s \in steps
    /\ s.pc = "focus"
    /\ LET e == [Engine EXCEPT !.steps = @ \ {s}]
           c == afterFocus(s.char, settings.singleMethod, exec,
                           clipboardAvailable)
       IN  IF c.pc = "clipboard"
           THEN Becomes(Suspended(e, "clipboard", s.char, s.pos, s.run))
           ELSE ChainEnds(e, s, c)
    /\ UNCHANGED focusing
    /\ UNCHANGED historyVars
    /\ UNCHANGED runVars
    /\ UNCHANGED callVars

\* typeCharacter after navigator.clipboard.writeText(): the insertion (by
\* the paste or by method 3 or 4), the return and the rest of
\* typeNextCharacter
ClipboardWritten(s, write, paste) ==
    /\ s \in steps
    /\ s.pc = "clipboard"
    /\ ChainEnds([Engine EXCEPT !.steps = @ \ {s}], s,
                 methodTwo(SuspendedCall(s.char, settings.singleMethod),
                           write, paste))
    /\ UNCHANGED focusing
    /\ UNCHANGED historyVars
    /\ UNCHANGED runVars
    /\ UNCHANGED callVars

Next ==
    \/ \E st \in StartInputs, ed \in EditorInputs : StartTyping(st, ed)
    \/ \E r \in focusing : FocusEstablished(r)
    \/ \E t \in timers, toggle \in ToggleOutcomes : TimerFires(t, toggle)
    \/ StopTyping
    \/ PauseTyping
    \/ \E toggle \in ToggleOutcomes : ResumeTyping(toggle)
    \/ \E toggle \in ToggleOutcomes : TogglePause(toggle)
    \/ \E s \in steps : SettleElapsed(s)
    \/ \E s \in steps, exec \in ExecOutcomes, clipboardAvailable \in BOOLEAN :
          FocusAwaited(s, exec, clipboardAvailable)
    \/ \E s \in steps, write \in WriteOutcomes, paste \in PasteOutcomes :
          ClipboardWritten(s, write, paste)

Spec == Init /\ [][Next]_vars

\* a run without formatting that is left alone: one start on an acquired
\* surface, of any text of letters, spaces, line feeds and accented letters,
\* and then only the tasks of the event loop
PlainAlphabet == {"a", SP, LF, EACUTE}
PlainTexts == UNION {[1..k -> PlainAlphabet] : k \in 0..MaxPlainLen}

PlainStart ==
    /\ runId = 0
    /\ \E text \in PlainTexts :
          StartTyping([text |-> text, preserveFormatting |-> FALSE,
                       typoSimulation |-> FALSE,
                       singleMethod |-> "undefined"], "element")

PlainNext ==
    \/ PlainStart
    \/ \E r \in focusing : FocusEstablished(r)
    \/ \E t \in timers, toggle \in ToggleOutcomes : TimerFires(t, toggle)
    \/ \E s \in steps, exec \in ExecOutcomes, clipboardAvailable \in BOOLEAN :
          FocusAwaited(s, exec, clipboardAvailable)
    \/ \E s \in steps, write \in WriteOutcomes, paste \in PasteOutcomes :
          ClipboardWritten(s, write, paste)

PlainSpec == Init /\ [][PlainNext]_vars

\* a run that is left alone, with or without formatting and in either method
\* mode: one start on an acquired surface, of any text of letters, line
\* feeds and italic markers, and then only the tasks of the event loop
UndisturbedAlphabet == {"a", LF, "*"}
UndisturbedTexts == UNION {[1..k -> UndisturbedAlphabet] : k \in 0..MaxPlainLen}

UndisturbedStart ==
    /\ runId = 0
    /\ \E text \in UndisturbedTexts, preserveFormatting \in BOOLEAN,
          singleMethod \in SingleMethodInputs :
          StartTyping([text |-> text,
                       preserveFormatting |-> preserveFormatting,
                       typoSimulation |-> FALSE,
                       singleMethod |-> singleMethod], "element")

UndisturbedNext ==
    \/ UndisturbedStart
    \/ \E r \in focusing : FocusEstablished(r)
    \/ \E t \in timers, toggle \in ToggleOutcomes : TimerFires(t, toggle)
    \/ \E s \in steps : SettleElapsed(s)
    \/ \E s \in steps, exec \in ExecOutcomes, clipboardAvailable \in BOOLEAN :
          FocusAwaited(s, exec, clipboardAvailable)
    \/ \E s \in steps, write \in WriteOutcomes, paste \in PasteOutcomes :
          ClipboardWritten(s, write, paste)

UndisturbedSpec == Init /\ [][UndisturbedNext]_vars

\* one typeCharacter call followed through its chain of mechanisms, for
\* every character kind, every value of settings.singleMethod and every
\* outcome of every mechanism
ChainInit ==
    /\ EngineInit
    /\ call \in ChainInputs
    /\ timing = NoTiming
    /\ cleaning = NoCleaning
    /\ parsing = NoParsing
    /\ popup = NoPopup
    /\ pressing = NoPressing

\* the call after ensureGoogleDocsFocus(): as in FocusAwaited
ChainFocusAwaited ==
    /\ call.locals.pc = "focus"
    /\ LET c == afterFocus(call.char, call.singleMethod, call.exec,
                           call.clipboardAvailable)
       IN  call' = [call EXCEPT !.locals =
                       IF c.pc = "clipboard" THEN c
                       ELSE chainEnd(c, call.key, call.input)]
    /\ UNCHANGED engineVars
    /\ UNCHANGED <<timing, cleaning, parsing, popup, pressing>>

\* the call after navigator.clipboard.writeText(): as in ClipboardWritten
ChainClipboardWritten ==
    /\ call.locals.pc = "clipboard"
    /\ call' = [call EXCEPT !.locals =
                   chainEnd(methodTwo(call.locals, call.write, call.paste),
                            call.key, call.input)]
    /\ UNCHANGED engineVars
    /\ UNCHANGED <<timing, cleaning, parsing, popup, pressing>>

ChainNext ==
    \/ ChainFocusAwaited
    \/ ChainClipboardWritten

ChainSpec == ChainInit /\ [][ChainNext]_vars

\* a run with formatting that is left alone and whose format toggles are
\* all dispatched: one start on an acquired surface, in either method mode,
\* of *a*~~b~~, of **a**_b_, of "a **b** c" or of ~~ab~~
FormattedDocuments ==
    { TextOf(<<Span(<<"*">>, <<"a">>), Span(<<"~", "~">>, <<"b">>)>>),
      TextOf(<<Span(<<"*", "*">>, <<"a">>), Span(<<"_">>, <<"b">>)>>),
      TextOf(<<Plain(<<"a", SP>>), Span(<<"*", "*">>, <<"b">>),
               Plain(<<SP, "c">>)>>),
      TextOf(<<Span(<<"~", "~">>, <<"a", "b">>)>>) }

FormattedStart ==
    /\ runId = 0
    /\ \E text \in FormattedDocuments, singleMethod \in SingleMethodInputs :
          StartTyping([text |-> text, preserveFormatting |-> TRUE,
                       typoSimulation |-> FALSE,
                       singleMethod |-> singleMethod], "element")

FormattedNext ==
    \/ FormattedStart
    \/ \E r \in focusing : FocusEstablished(r)
    \/ \E t \in timers : TimerFires(t, "dispatched")
    \/ \E s \in steps : SettleElapsed(s)
    \/ \E s \in steps, exec \in ExecOutcomes, clipboardAvailable \in BOOLEAN :
          FocusAwaited(s, exec, clipboardAvailable)
    \/ \E s \in steps, write \in WriteOutcomes, paste \in PasteOutcomes :
          ClipboardWritten(s, write, paste)

FormattedSpec == Init /\ [][FormattedNext]_vars

\* one calculateDelay call, for every speed of the slider, with and without
\* natural variations, and every draw of Math.random()
DelayInit ==
    /\ EngineInit
    /\ call = NoCall
    /\ timing \in DelayInputs
    /\ cleaning = NoCleaning
    /\ parsing = NoParsing
    /\ popup = NoPopup
    /\ pressing = NoPressing

\* the call returns
CalculateDelay ==
    /\ timing.pc = "called"
    /\ timing' = [timing EXCEPT
                     !.result = calculateDelay(timing.wpm,
                                               timing.naturalVariations,
                                               timing.random),
                     !.pc = "returned"]
    /\ UNCHANGED engineVars
    /\ UNCHANGED <<call, cleaning, parsing, popup, pressing>>

DelayNext == CalculateDelay

DelaySpec == DelayInit /\ [][DelayNext]_vars

\* one cleanAndNormalizeText call, and a second call on what it returned
NormalizeInit ==
    /\ EngineInit
    /\ call = NoCall
    /\ timing = NoTiming
    /\ cleaning \in CleaningInputs
    /\ parsing = NoParsing
    /\ popup = NoPopup
    /\ pressing = NoPressing

\* the call returns
CleanAndNormalize ==
    /\ cleaning.pc = "called"
    /\ cleaning' = [cleaning EXCEPT
                       !.once = cleanAndNormalizeText(cleaning.text),
                       !.pc = "returned"]
    /\ UNCHANGED engineVars
    /\ UNCHANGED <<call, timing, parsing, popup, pressing>>

\* the returned text is normalized again
CleanAgain ==
    /\ cleaning.pc = "returned"
    /\ cleaning' = [cleaning EXCEPT
                       !.twice = cleanAndNormalizeText(cleaning.once),
                       !.pc = "repeated"]
    /\ UNCHANGED engineVars
    /\ UNCHANGED <<call, timing, parsing, popup, pressing>>

NormalizeNext ==
    \/ CleanAndNormalize
    \/ CleanAgain

NormalizeSpec == NormalizeInit /\ [][NormalizeNext]_vars

\* one parseFormattingMarkers call
ParseInit ==
    /\ EngineInit
    /\ call = NoCall
    /\ timing = NoTiming
    /\ cleaning = NoCleaning
    /\ parsing \in ParsingInputs
    /\ popup = NoPopup
    /\ pressing = NoPressing

\* the call returns
ParseFormattingMarkers ==
    /\ parsing.pc = "called"
    /\ parsing' = [parsing EXCEPT
                      !.result = parseFormattingMarkers(TextOf(parsing.segments)),
                      !.pc = "returned"]
    /\ UNCHANGED engineVars
    /\ UNCHANGED <<call, timing, cleaning, popup, pressing>>

ParseNext == ParseFormattingMarkers

ParseSpec == ParseInit /\ [][ParseNext]_vars

\* the popup and the content script: clicks on the three buttons, the
\* awaits of the handlers, the engine's messages
PopupInit ==
    /\ EngineInit
    /\ call = NoCall
    /\ timing = NoTiming
    /\ cleaning = NoCleaning
    /\ parsing = NoParsing
    /\ popup = NewPopup
    /\ pressing = NoPressing

\* the popup becomes p
PopupBecomes(p) ==
    /\ popup' = p
    /\ UNCHANGED engineVars
    /\ UNCHANGED <<call, timing, cleaning, parsing, pressing>>

\* one more click may be made
ClickAllowed == popup.clicks < MaxClicks

\* a click on Start: startFlow up to chrome.tabs.query
StartFlow ==
    /\ ClickAllowed /\ ~popup.startDisabled
    /\ PopupBecomes(Clicked(popup, "startFlow"))

\* a click on Stop: stopFlow up to chrome.tabs.query
StopFlow ==
    /\ ClickAllowed /\ ~popup.stopDisabled
    /\ PopupBecomes(Clicked(popup, "stopFlow"))

\* a click on Pause: togglePause up to chrome.tabs.query
PopupTogglePause ==
    /\ ClickAllowed /\ ~popup.pauseDisabled
    /\ PopupBecomes(Clicked(popup, "togglePause"))

\* chrome.tabs.query has resolved
QueryResolved(h, onDocs) ==
    /\ h \in popup.handlers /\ h.pc = "query"
    /\ PopupBecomes(afterQuery(popup, h, onDocs))

\* the content script receives the command and answers
CommandReceived(h, editorFound) ==
    /\ h \in popup.handlers /\ h.pc = "send"
    /\ Len(popup.inbox) < MaxInbox
    /\ PopupBecomes(listener(GoesOn(popup, h, "responded", h.action),
                             h.action, editorFound))

\* no content script receives the command
SendRejected(h) ==
    /\ h \in popup.handlers /\ h.pc = "send"
    /\ PopupBecomes(GoesOn(popup, h, "rejected", h.action))

\* chrome.tabs.sendMessage has settled: the rest of the handler
SendSettled(h) ==
    /\ h \in popup.handlers /\ h.pc \in {"responded", "rejected"}
    /\ PopupBecomes(afterSend(popup, h))

\* the engine reports progress, or reaches the end of the text
EngineReports(action) ==
    /\ popup.engine = "typing"
    /\ Len(popup.inbox) < MaxInbox
    /\ PopupBecomes(Posted([popup EXCEPT !.engine =
                                IF action = "typingComplete" THEN "idle"
                                ELSE @], action))

\* the popup receives the oldest message of the engine
MessageReceived ==
    /\ popup.inbox # <<>>
    /\ PopupBecomes(handleMessage([popup EXCEPT !.inbox = Tail(@)],
                                  Head(popup.inbox)))

PopupNext ==
    \/ StartFlow
    \/ StopFlow
    \/ PopupTogglePause
    \/ \E h \in popup.handlers, onDocs \in BOOLEAN : QueryResolved(h, onDocs)
    \/ \E h \in popup.handlers, editorFound \in BOOLEAN :
          CommandReceived(h, editorFound)
    \/ \E h \in popup.handlers : SendRejected(h)
    \/ \E h \in popup.handlers : SendSettled(h)
    \/ \E action \in {"updateProgress", "typingComplete"} :
          EngineReports(action)
    \/ MessageReceived

PopupSpec == PopupInit /\ [][PopupNext]_vars

\* one simulateKeyPress call
KeyPressInit ==
    /\ EngineInit
    /\ call = NoCall
    /\ timing = NoTiming
    /\ cleaning = NoCleaning
    /\ parsing = NoParsing
    /\ popup = NoPopup
    /\ pressing \in KeyPressInputs

\* the call returns
SimulateKeyPress ==
    /\ pressing.pc = "called"
    /\ pressing' = simulateKeyPress(pressing)
    /\ UNCHANGED engineVars
    /\ UNCHANGED <<call, timing, cleaning, parsing, popup>>

KeyPressNext == SimulateKeyPress

KeyPressSpec == KeyPressInit /\ [][KeyPressNext]_vars

\* the tasks the event loop runs by itself: timers fire, awaits return
Internal ==
    \/ \E r \in focusing : FocusEstablished(r)
    \/ \E t \in timers, toggle \in ToggleOutcomes : TimerFires(t, toggle)
    \/ \E s \in steps : SettleElapsed(s)
    \/ \E s \in steps, exec \in ExecOutcomes, clipboardAvailable \in BOOLEAN :
          FocusAwaited(s, exec, clipboardAvailable)
    \/ \E s \in steps, write \in WriteOutcomes, paste \in PasteOutcomes :
          ClipboardWritten(s, write, paste)

\* the event loop runs every pending timer callback and continuation
FairSpec == Spec /\ WF_vars(Internal)

(***************************************************************************)
(* Properties of the pacing state machine                                  *)
(***************************************************************************)
\* one more character was handed to the insertion chain in this task
Inserted == executed'.inserts = executed.inserts + 1

\* C1: in a run that receives only legal pauses and resumes (pause from
\* running, resume from paused, no stop, no second start), the instructions
\* are executed in stream order: the i-th executed instruction is
\* instruction i-1, so a resume continues at the cursor of the pause and
\* nothing is executed twice or skipped
C1_PauseResumeKeepPosition ==
    [][(/\ runId' = 1
        /\ ~misuse'
        /\ life' \in {"running", "paused", "completed"}
        /\ Inserted)
       => executed'.last.pos = executed.inserts]_vars

\* C2: in the first run, on an acquired surface and receiving only legal
\* commands, at most one typeNextCharacter invocation is in flight, and
\* while one is in flight no wake-up is pending
C2_OneInstructionInFlight ==
    (runId = 1 /\ editor # NoEditor /\ ~misuse)
    => /\ Cardinality(steps) <= 1
       /\ steps # {} => timers = {}

\* C3: once a run on an acquired surface that received only legal commands
\* is stopped, and until the next start, nothing is inserted or toggled,
\* the cursor does not move and no progress event is sent
C3_NothingAfterStop ==
    [][(/\ life = "stopped" /\ life' = "stopped"
        /\ editor # NoEditor /\ ~misuse)
       => /\ executed' = executed
          /\ currentPosition' = currentPosition
          /\ events'.progress = events.progress]_vars

\* C4: after a start issued while a run was active, no wake-up and no
\* start continuation of the previous run is pending, and no instruction
\* is executed by a step of the previous run
C4_PreviousRunTerminated ==
    (runId >= 2 /\ lifeAtStart \in {"running", "paused"} /\ editor # NoEditor)
    => /\ \A t \in timers : t.run = runId
       /\ focusing \subseteq {runId}
       /\ executed.inserts > 0 => executed.last.run = runId

\* C5: in a run on an acquired surface that receives only legal commands,
\* the cursor stays within the stream and no progress event reports more
\* than the total
C5_CursorInRange ==
    (editor # NoEditor /\ ~misuse)
    => /\ currentPosition \in 0..Len(textToType)
       /\ events.lastProgress.current <= events.lastProgress.total

\* C6: a run without formatting that receives no command after its start
\* inserts the characters of the normalized text in order, each once, and
\* then completes: the i-th insertion is character i-1, the cursor follows
\* the insertions, the run does not stall before completion, and at
\* completion every character has been inserted
C6_PlainRunTypesWholeText ==
    (runId = 1 /\ commands = 0 /\ ~settings.preserveFormatting
        /\ editor # NoEditor)
    => /\ textToType = cleanAndNormalizeText(settings.text)
       /\ executed.inserts \in {currentPosition, currentPosition + 1}
       /\ executed.inserts <= Len(textToType)
       /\ executed.inserts > 0 =>
             executed.last = [op |-> "insert",
                              ch |-> textToType[executed.inserts],
                              pos |-> executed.inserts - 1,
                              run |-> 1, at |-> 1]
       /\ executed.toggles = 0
       /\ events.progress = currentPosition
       /\ life = "running" =>
             /\ Cardinality(focusing) + Cardinality(timers)
                   + Cardinality(steps) = 1
             /\ events.completes = 0
       /\ life # "running" =>
             /\ life = "completed"
             /\ events.completes = 1
             /\ events.last.action = "typingComplete"
             /\ executed.inserts = Len(textToType)
             /\ currentPosition = Len(textToType)
             /\ focusing = {} /\ timers = {} /\ steps = {}

\* C6 witness: an undisturbed run without formatting has inserted its two
\* characters and completed
C6_Witness ==
    /\ runId = 1 /\ commands = 0 /\ ~settings.preserveFormatting
    /\ editor # NoEditor
    /\ life = "completed"
    /\ executed.inserts = 2
    /\ Len(settings.text) > Len(textToType)

\* C7: a resume received while the run is running changes nothing
C7_ResumeWhileRunningIsNoOp ==
    [][((\E toggle \in ToggleOutcomes : ResumeCommand(toggle))
          /\ life = "running" /\ isTyping /\ ~isPaused
          /\ editor # NoEditor)
       => UNCHANGED <<isTyping, isPaused, currentPosition, typingTimeout,
                      timers, steps, executed, events>>]_vars

\* C8: a pause or resume received while no run is active (before any start,
\* after a stop, after completion) changes no engine state, executes nothing
\* and sends nothing
C8_PauseResumeIgnoredWhenIdle ==
    [][((PauseCommand \/ \E toggle \in ToggleOutcomes : ResumeCommand(toggle))
          /\ life \in {"idle", "stopped", "completed"})
       => UNCHANGED <<isTyping, isPaused, currentPosition, typingTimeout,
                      timers, steps, executed, events>>]_vars

\* C9: a run on an acquired surface that is never stopped or restarted,
\* receives only legal pauses and resumes, and whose every pause is followed
\* by a resume, eventually completes
C9_RunEventuallyCompletes ==
    (/\ [](life \notin {"stopped", "errored"} /\ runId <= 1 /\ ~misuse)
     /\ [](life = "paused" => <>(life # "paused")))
    => [](life = "running" => <>(life = "completed"))

\* C10: a stop sends typingStopped, and the run started after it (start,
\* stop, start, on an acquired surface) starts at cursor 0 and executes
\* instructions 0, 1, 2, ... of its text in order, all of them by its own
\* chain of ticks
C10_FreshRunAfterStop ==
    [][/\ (commands' = commands + 1 /\ life' = "stopped")
          => events'.last.action = "typingStopped"
       /\ runId' = runId + 1 => currentPosition' = 0
       /\ (/\ runId' = 2 /\ commands' = 1 /\ lifeAtStart' = "stopped"
           /\ editor' # NoEditor
           /\ Inserted)
          => /\ executed'.last.pos = executed.inserts
             /\ executed'.last.run = runId']_vars

\* C11: after a stop of the first run (surface acquired, only legal pauses
\* and resumes) and until the next start, there is no active run: isTyping
\* and isPaused are false and typingTimeout holds no wake-up
C11_StoppedEngineIsQuiet ==
    (life = "stopped" /\ runId = 1 /\ editor # NoEditor /\ ~misuse)
    => /\ ~isTyping
       /\ ~isPaused
       /\ typingTimeout = NoTimeout

\* C12: a typeNextCharacter step that finishes while the run is paused
\* (surface acquired, only legal commands) schedules no wake-up
C12_NoTickScheduledWhilePaused ==
    [][(/\ life = "paused" /\ life' = "paused"
        /\ editor # NoEditor /\ ~misuse
        /\ Cardinality(steps') < Cardinality(steps))
       => timers' \subseteq timers]_vars

\* typingComplete is sent in this task
Completes == events'.completes = events.completes + 1

\* C13: typingComplete is sent only by a tick that finds the cursor at the
\* end of the text while the run is typing and not paused, at most once per
\* start, and leaves the engine not typing; and once the first run (surface
\* acquired, only legal commands) has completed, no wake-up is scheduled
C13_CompleteOnceAtEnd ==
    [][/\ Completes
          => /\ isTyping /\ ~isPaused
             /\ currentPosition >= Len(textToType)
             /\ events.completes = 0
             /\ ~isTyping'
       /\ (/\ life = "completed" /\ life' = "completed"
           /\ runId = 1 /\ editor # NoEditor /\ ~misuse)
          => timers' \subseteq timers]_vars

\* an updateProgress is sent in this task
Progresses == events'.progress = events.progress + 1

\* C14: in the first run (surface acquired, only legal commands) every
\* updateProgress follows an increment of the cursor by one and reports the
\* new cursor and the length of the text, the cursor moves only so, and the
\* reported values are 1, 2, ..., total: the k-th event reports k, and never
\* more than the total
C14_ProgressCountsToTotal ==
    [][(runId' = 1 /\ editor' # NoEditor /\ ~misuse')
       => /\ Progresses
             => /\ currentPosition' = currentPosition + 1
                /\ events'.lastProgress =
                      Message("updateProgress", currentPosition',
                              Len(textToType))
                /\ events'.lastProgress.current = events'.progress
                /\ events'.lastProgress.current \in 1..Len(textToType)
          /\ (currentPosition' # currentPosition /\ runId' = runId)
             => Progresses]_vars

\* a typeCharacter call of a suspended step ends in this task
CallEnds ==
    /\ Cardinality(steps') < Cardinality(steps)
    /\ \E s \in steps : s.pc \in {"focus", "clipboard"} /\ s \notin steps'

\* a tick whose format toggle throws reads an instruction in this task
ToggleThrows ==
    /\ \E t \in timers : TimerFires(t, "throw")
    /\ isTyping /\ ~isPaused /\ currentPosition < Len(textToType)
    /\ formattingMap.isMap /\ currentPosition \in DOMAIN formattingMap.entries

\* C15: in a run that is left alone, whatever the mechanisms of the chain
\* return or throw, the typeCharacter call ends with the rest of the step:
\* the run is still running, the cursor has advanced by one, one more
\* wake-up is pending and recorded, and the message sent is updateProgress;
\* and a format toggle that throws leaves the step going on to typeCharacter
C15_FailuresAreNotFatal ==
    [][/\ (life = "running" /\ CallEnds)
          => /\ life' = "running" /\ isTyping' /\ ~isPaused'
             /\ currentPosition' = currentPosition + 1
             /\ Cardinality(timers') = Cardinality(timers) + 1
             /\ typingTimeout' \in {t.id : t \in timers'}
             /\ events'.sent = events.sent + 1
             /\ events'.last.action = "updateProgress"
       /\ (life = "running" /\ ToggleThrows)
          => /\ life' = "running"
             /\ currentPosition' = currentPosition
             /\ \E s \in steps' : s.pc = "focus" /\ s.pos = currentPosition
             /\ events' = events]_vars

\* C15 witness: in multi method mode, after a first character was passed,
\* the structured edit command has failed for the second one and its call
\* awaits the clipboard write
C15_Witness ==
    /\ runId = 1 /\ commands = 0
    /\ settings.singleMethod = "false"
    /\ life = "running"
    /\ currentPosition = 1
    /\ events.progress = 1
    /\ \E s \in steps : s.pc = "clipboard" /\ s.pos = 1

\* C16: a first start that acquires no surface sends typingError as its only
\* message and executes nothing, and until the next start no command moves
\* the cursor or makes the engine send updateProgress
C16_NoSurfaceNoRun ==
    [][/\ (runId' = 1 /\ runId = 0 /\ editor' = NoEditor)
          => /\ events'.sent = 1
             /\ events'.last.action = "typingError"
             /\ executed' = NothingExecuted
       /\ (runId = 1 /\ life = "errored" /\ life' = "errored")
          => /\ currentPosition' = currentPosition
             /\ events'.progress = events.progress
             /\ executed' = executed]_vars

(***************************************************************************)
(* Properties of the chain of insertion mechanisms                         *)
(***************************************************************************)
\* the mechanisms the followed call has attempted so far, in order
attempts == call.locals.methodsAttempted

\* mechanism m was attempted
Has(m) == \E i \in DOMAIN attempts : attempts[i] = m

\* the followed call is made in single method mode
SingleMode == call.singleMethod # "false"

\* mechanism number i of the followed call has reported success
Reported(i) ==
    \/ attempts[i] = "execCommand" /\ call.exec = "true"
    \/ /\ attempts[i] = "clipboard" /\ call.locals.pc # "clipboard"
       /\ call.write = "resolved" /\ call.paste = "true"
    \/ attempts[i] = "keyboardEvents" /\ call.key = "returned"

\* C17: in single method mode a call that has attempted the key events
\* never attempts the input event, whatever mechanisms 1 to 3 did
C17_NoInputEventInSingleMode ==
    (SingleMode /\ Has("keyboardEvents")) => ~Has("inputEvents")

\* C17 witness: in single method mode the edit command and the paste
\* failed, the key events threw, and the call has returned
C17_Witness ==
    /\ call.singleMethod = "undefined"
    /\ call.exec = "false" /\ call.paste = "false" /\ call.key = "throw"
    /\ call.locals.pc = "returned"
    /\ attempts = <<"execCommand", "clipboard", "keyboardEvents">>

\* C18: in single method mode (which includes an absent singleMethod) the
\* mechanisms are attempted in the order edit command, clipboard, key
\* events, and a mechanism that reports success is the last one attempted
C18_StopsAtFirstSuccess ==
    SingleMode
    => /\ attempts \in {<<>>, <<"execCommand">>,
                        <<"execCommand", "clipboard">>,
                        <<"execCommand", "keyboardEvents">>,
                        <<"execCommand", "clipboard", "keyboardEvents">>}
       /\ \A i \in DOMAIN attempts : Reported(i) => i = Len(attempts)

\* C18 witness: with singleMethod absent the edit command failed, the paste
\* succeeded, and the call has returned without the key events
C18_Witness ==
    /\ call.singleMethod = "undefined"
    /\ call.exec = "false" /\ call.write = "resolved" /\ call.paste = "true"
    /\ call.locals.pc = "returned"
    /\ attempts = <<"execCommand", "clipboard">>

\* C19: in multi method mode a call for a character that is not a line
\* break, with a clipboard available, has attempted all four mechanisms
\* when it returns
C19_MultiModeAttemptsAll ==
    (/\ call.singleMethod = "false" /\ call.char # LF
     /\ call.clipboardAvailable /\ call.locals.pc = "returned")
    => attempts = <<"execCommand", "clipboard", "keyboardEvents",
                    "inputEvents">>

\* C20: the clipboard is attempted only for a character that is not a line
\* break and with a clipboard available; otherwise a call that goes on
\* after the edit command goes on with the key events
C20_ClipboardOnlyWhenPossible ==
    /\ Has("clipboard") => (call.char # LF /\ call.clipboardAvailable)
    /\ ((call.char = LF \/ ~call.clipboardAvailable) /\ Len(attempts) >= 2)
       => attempts[2] = "keyboardEvents"

\* C20 witness: for a line break with a clipboard available the edit
\* command failed and the call has gone on with the key events and returned
C20_Witness ==
    /\ call.char = LF /\ call.clipboardAvailable
    /\ call.exec = "false"
    /\ call.locals.pc = "returned"
    /\ attempts = <<"execCommand", "keyboardEvents">>

(***************************************************************************)
(* Properties of calculateDelay                                            *)
(***************************************************************************)
\* C21: for every speed from 10 to 200 words a minute, with and without
\* natural variations and for every draw of Math.random(), the delay
\* calculateDelay returns is at least 50 ms
C21_DelayAtLeastFifty ==
    timing.pc = "returned" => AtLeast(timing.result, Number(50, 1))

\* C21 witness: at 200 words a minute with natural variations and the draw
\* 0, the varied delay is 42 ms and the call has returned 50 ms
C21_Witness ==
    /\ timing.pc = "returned"
    /\ timing.wpm = 200 /\ timing.naturalVariations
    /\ timing.random.num = 0
    /\ ~AtLeast(Times(baseDelay(timing.wpm), Number(7, 10)), Number(50, 1))
    /\ timing.result = Number(50, 1)

\* C22: without natural variations the returned delay is 60000 / (wpm * 5)
\* for every speed from 10 to 200: the 50 ms minimum does not bind there;
\* at 60 words a minute it is exactly 200 ms
C22_FixedDelayIsBaseDelay ==
    (timing.pc = "returned" /\ ~timing.naturalVariations)
    => /\ timing.result.num * (timing.wpm * 5) = 60000 * timing.result.den
       /\ 60000 >= 50 * (timing.wpm * 5)
       /\ timing.wpm = 60 => timing.result.num = 200 * timing.result.den

\* C22 witness: at 60 words a minute without natural variations the call
\* has returned 200 ms
C22_Witness ==
    /\ timing.pc = "returned"
    /\ timing.wpm = 60 /\ ~timing.naturalVariations
    /\ timing.result.num = 200 * timing.result.den

(***************************************************************************)
(* Properties of cleanAndNormalizeText                                     *)
(***************************************************************************)
\* the normalized text of the followed call
cleaned == cleaning.once

\* the call has returned
Cleaned == cleaning.pc \in {"returned", "repeated"}

\* C23: normalizing a normalized text changes nothing:
\* cleanAndNormalizeText(cleanAndNormalizeText(s)) = cleanAndNormalizeText(s)
C23_NormalizeIsIdempotent ==
    cleaning.pc = "repeated" => cleaning.twice = cleaned

\* the characters i and i + 1 of the normalized text are both in cls
Adjacent(i, cls1, cls2) == cleaned[i] \in cls1 /\ cleaned[i + 1] \in cls2

\* C24: the normalized text has no whitespace at its ends, no two
\* consecutive spaces or tabs, no space or tab next to a line break, and no
\* more than two consecutive line breaks
C24_WhitespaceIsFolded ==
    Cleaned
    => /\ cleaned # <<>> =>
             /\ cleaned[1] \notin JsWhitespace
             /\ cleaned[Len(cleaned)] \notin JsWhitespace
       /\ \A i \in 1..(Len(cleaned) - 1) :
             /\ ~Adjacent(i, {SP, TAB}, {SP, TAB})
             /\ ~Adjacent(i, {SP, TAB}, {LF})
             /\ ~Adjacent(i, {LF}, {SP, TAB})
       /\ \A i \in 1..(Len(cleaned) - 2) :
             ~(Adjacent(i, {LF}, {LF}) /\ cleaned[i + 2] = LF)

Parsed == parsing.pc = "returned"

\* the segments of the parsed text of a kind
SegmentsOf(kind) ==
    {i \in DOMAIN parsing.segments : parsing.segments[i].kind = kind}

\* the segment is an empty bold span
EmptyBold(seg) ==
    seg.kind = "span" /\ seg.content = <<>> /\ KindOf(seg.delim) = "bold"

\* span number i of the segments is an italic span that has its own marker
\* character next to one of its delimiters
Abuts(segments, i) ==
    LET before == TextOf(SubSeq(segments, 1, i - 1))
        after == TextOf(SubSeq(segments, i + 1, Len(segments)))
        c == segments[i].delim[1]
    IN  /\ segments[i].kind = "span"
        /\ Len(segments[i].delim) = 1
        /\ \/ before # <<>> /\ before[Len(before)] = c
           \/ after # <<>> /\ after[1] = c

\* every marker of the parsed text belongs to a span, and no italic span is
\* immediately adjacent to a doubled delimiter, in the text or once the
\* bold pass has removed the empty bold spans
WellFormed ==
    LET segments == parsing.segments
        kept == SelectSeq(segments, LAMBDA seg : ~EmptyBold(seg))
    IN  /\ SegmentsOf("open") = {}
        /\ \A i \in DOMAIN segments : ~Abuts(segments, i)
        /\ \A i \in DOMAIN kept : ~Abuts(kept, i)

\* the markers of the parsed text are dangling delimiters, each of them a
\* different one
OnlyUnterminated ==
    /\ SegmentsOf("span") = {}
    /\ SegmentsOf("open") # {}
    /\ \A i, j \in SegmentsOf("open") :
          i # j => parsing.segments[i].delim # parsing.segments[j].delim

\* the parsed text without the delimiters of its spans
RECURSIVE WithoutDelimiters(_)
WithoutDelimiters(segments) ==
    IF segments = <<>> THEN <<>>
    ELSE (IF Head(segments).kind = "span" THEN Head(segments).content
          ELSE SegmentText(Head(segments)))
         \o WithoutDelimiters(Tail(segments))

\* C26: for a text whose markers are well formed, cleanText is the text
\* without the delimiters of its spans, the contents unchanged; for a text
\* whose only markers are dangling delimiters, cleanText is the text and the
\* map is empty
C26_StripsExactlyTheDelimiters ==
    /\ (Parsed /\ WellFormed)
       => parsing.result.cleanText = WithoutDelimiters(parsing.segments)
    /\ (Parsed /\ OnlyUnterminated)
       => /\ parsing.result.cleanText = TextOf(parsing.segments)
          /\ DOMAIN parsing.result.formattingMap = {}

\* the returned map
returnedMap == parsing.result.formattingMap

\* the parsed text has one span, a bold one, and no other marker
SingleBoldSpan ==
    /\ SegmentsOf("open") = {}
    /\ \E i \in SegmentsOf("span") :
          /\ SegmentsOf("span") = {i}
          /\ KindOf(parsing.segments[i].delim) = "bold"

\* the index in the text at which the opening delimiter of the span starts
\* (counted from 0), and the content of the span
SpanIndex ==
    LET i == CHOOSE i \in SegmentsOf("span") : TRUE
    IN  Len(TextOf(SubSeq(parsing.segments, 1, i - 1)))
SpanContent ==
    LET i == CHOOSE i \in SegmentsOf("span") : TRUE
    IN  parsing.segments[i].content

\* the map holds the event at the offset
Records(offset, type, action) ==
    /\ offset \in DOMAIN returnedMap
    /\ returnedMap[offset] = [type |-> type, action |-> action]

\* C27: for a text whose only marker is one bold span **c** or __c__ whose
\* opening delimiter starts at index p, the map holds a bold start at
\* offset p and a bold end at offset p + len(c), and cleanText is the text
\* without the two delimiters
C27_BoldSpanOffsets ==
    (Parsed /\ SingleBoldSpan)
    => /\ parsing.result.cleanText = WithoutDelimiters(parsing.segments)
       /\ Records(SpanIndex, "bold", "start")
       /\ Records(SpanIndex + Len(SpanContent), "bold", "end")

\* C28: in the map returned for a text with well-formed markers, every
\* start event has an end event of the same kind at an offset that is not
\* smaller (the claim asks for exactly one; at least one is checked)
C28_EveryStartHasItsEnd ==
    (Parsed /\ WellFormed)
    => \A o \in DOMAIN returnedMap :
          returnedMap[o].action = "start"
          => \E o2 \in DOMAIN returnedMap :
                /\ o2 >= o
                /\ returnedMap[o2] = [type |-> returnedMap[o].type, action |-> "end"]

(***************************************************************************)
(* Properties of the format toggles of a run                               *)
(***************************************************************************)
\* the events each pass of parseFormattingMarkers recorded for the text of
\* the run: the map each pass fills when it starts from an empty map
PassEvents ==
    LET bold == BoldPass(settings.text, EmptyMap)
        italic == ItalicPass(bold.cleanText, 1, 0, <<>>, EmptyMap)
        underline == UnderlinePass(italic.cleanText, EmptyMap)
    IN  [bold |-> bold.formattingMap, italic |-> italic.formattingMap,
         underline |-> underline.formattingMap]

\* the number of events the passes recorded at the offsets up to i
RecordedUpTo(i) ==
    Cardinality({o \in DOMAIN PassEvents.bold : o <= i})
    + Cardinality({o \in DOMAIN PassEvents.italic : o <= i})
    + Cardinality({o \in DOMAIN PassEvents.underline : o <= i})

\* C29: in a run with formatting that is left alone, when the character at
\* offset i is inserted the toggle of every event recorded at an offset up
\* to i has been dispatched (as many toggles as events), and the last one
\* dispatched is the toggle of the event the map holds at offset i
C29_TogglesBeforeCharacter ==
    [][(Inserted /\ settings.preserveFormatting)
       => LET i == executed'.last.pos
          IN  /\ executed.toggles = RecordedUpTo(i)
              /\ i \in DOMAIN formattingMap.entries
                 => executed.lastToggle =
                       Instruction(formattingMap.entries[i].action,
                                   formattingMap.entries[i].type, i, 1)]_vars

\* the number of formatting events of the run
EventCount == Cardinality(DOMAIN formattingMap.entries)

\* C30: in a run with formatting and k formatting events, every
\* updateProgress reports the total len(text) + k, and at completion the
\* cursor has taken len(text) + k steps, one for every character and one
\* for every toggle
C30_TogglesAreCursorSteps ==
    (runId = 1 /\ settings.preserveFormatting)
    => /\ events.progress > 0
          => events.lastProgress.total = Len(textToType) + EventCount
       /\ life = "completed"
          => /\ currentPosition = Len(textToType) + EventCount
             /\ executed.inserts + executed.toggles = currentPosition

(***************************************************************************)
(* Properties of the typo simulation                                       *)
(***************************************************************************)
\* a character typed by mistake, its deletion, then the character
Mistyped(keys, char) ==
    /\ Len(keys) = 3
    /\ keys[1] # char
    /\ keys[2] = "Backspace"
    /\ keys[3] = char

\* C31: at a character of a run, with settings.typoSimulation enabled the
\* step may type a wrong character, delete it and type the character, and
\* every sequence it may type leaves the character; with the option
\* disabled the step types the character only
C31_TypoSimulationMistypes ==
    (life = "running" /\ currentPosition < Len(textToType))
    => LET char == ReadChar(textToType, currentPosition)
           typed == Keystrokes(char, settings.typoSimulation)
       IN  /\ \A keys \in typed : keys = <<char>> \/ Mistyped(keys, char)
           /\ settings.typoSimulation
              => \E keys \in typed : Mistyped(keys, char)
           /\ ~settings.typoSimulation => typed = {<<char>>}

(***************************************************************************)
(* Properties of the pending wake-ups                                      *)
(***************************************************************************)
\* C32: in the first run, on an acquired surface and under legal commands,
\* at most one timer whose callback calls typeNextCharacter is pending, it
\* is the one typingTimeout records, and none is pending once the run is stopped or
\* paused: the 100 ms timer of startTyping and the timer set by a step that
\* was in flight when the stop or the pause arrived are cancelled too
C32_OnlyRecordedWakeUpPending ==
    (runId = 1 /\ editor # NoEditor /\ ~misuse)
    => /\ Cardinality(timers) <= 1
       /\ \A t \in timers : t.id = typingTimeout
       /\ life \in {"stopped", "paused"} => timers = {}

(***************************************************************************)
(* Properties of the format toggles at completion                          *)
(***************************************************************************)
\* C33: when a run with formatting that is left alone has completed, as
\* many toggles have been dispatched as parseFormattingMarkers returned
\* events, and an event at the offset len(text), the end of a span that
\* closes the text, was the last toggle dispatched
C33_EveryEventAppliedAtCompletion ==
    (runId = 1 /\ settings.preserveFormatting /\ life = "completed")
    => /\ executed.toggles = EventCount
       /\ Len(textToType) \in DOMAIN formattingMap.entries
          => LET last == formattingMap.entries[Len(textToType)]
             IN  executed.lastToggle =
                    Instruction(last.action, last.type, Len(textToType), 1)

(***************************************************************************)
(* Properties of the offsets after the three passes                        *)
(***************************************************************************)
\* every span of the parsed text has a content of one line that is not
\* empty, and no two spans are neighbours: no two events share an offset
Separated ==
    LET segments == parsing.segments
    IN  /\ \A i \in SegmentsOf("span") :
              /\ segments[i].content # <<>>
              /\ \A k \in DOMAIN segments[i].content :
                    segments[i].content[k] # LF
        /\ \A i \in DOMAIN segments :
              i > 1 => segments[i].kind # segments[i - 1].kind

\* the offset in cleanText at which the content of span number i starts
ContentOffset(i) == Len(WithoutDelimiters(SubSeq(parsing.segments, 1, i - 1)))

\* C34: for a text of well-formed, separated spans, after the three passes
\* every offset of the map is a position of cleanText (0 to its length),
\* and every span has its start event at the offset at which its content
\* starts in cleanText and its end event at the offset at which it ends,
\* also when an italic or underline span precedes a bold span
C34_OffsetsDelimitSpansInCleanText ==
    (Parsed /\ WellFormed /\ Separated)
    => /\ \A o \in DOMAIN returnedMap :
             o >= 0 /\ o <= Len(parsing.result.cleanText)
       /\ \A i \in SegmentsOf("span") :
             LET seg == parsing.segments[i]
             IN  /\ Records(ContentOffset(i), KindOf(seg.delim), "start")
                 /\ Records(ContentOffset(i) + Len(seg.content),
                            KindOf(seg.delim), "end")
                 /\ SubSeq(parsing.result.cleanText, ContentOffset(i) + 1,
                           ContentOffset(i) + Len(seg.content)) = seg.content

(***************************************************************************)
(* Properties of a start with nothing to type                              *)
(***************************************************************************)
\* C35: after a start, on an acquired surface, of a text that normalizes to
\* the empty text, the engine is not typing and has sent neither
\* updateProgress nor typingComplete
C35_EmptyTextCreatesNoRun ==
    (runId = 1 /\ editor # NoEditor /\ textToType = <<>>)
    => /\ ~isTyping
       /\ events.progress = 0
       /\ events.completes = 0

(***************************************************************************)
(* Properties of the order of the messages of a run                        *)
(***************************************************************************)
\* C36: in the first run, of a text that is not empty, on an acquired
\* surface and under legal commands, typingComplete is sent only after an
\* updateProgress that reported current = total (the events report 1, 2,
\* ..., so one of them did when the last one reported the total or more),
\* and once typingComplete or typingStopped has been sent no updateProgress
\* is sent until the next start
C36_ProgressBeforeCompleteNoneAfter ==
    [][(runId = 1 /\ runId' = 1 /\ editor # NoEditor /\ ~misuse'
        /\ textToType # <<>>)
       => /\ Completes
             => /\ events.progress > 0
                /\ events.lastProgress.current >= events.lastProgress.total
          /\ life \in {"completed", "stopped"} => ~Progresses]_vars

(***************************************************************************)
(* Properties of the varied delay                                          *)
(***************************************************************************)
RECURSIVE Gcd(_, _)
Gcd(a, b) == IF b = 0 THEN a ELSE Gcd(b, a % b)

\* the quotient in lowest terms
Reduced(a) == LET g == Gcd(a.num, a.den) IN Number(a.num \div g, a.den \div g)

\* the delay of the followed call, 60000 / (wpm * 5) and its multiples by
\* 0.7 and by 1.3
VariedDelay == Reduced(timing.result)
SteadyDelay == Reduced(Number(60000, timing.wpm * 5))
LowestDelay == Reduced(Times(SteadyDelay, Number(7, 10)))
HighestDelay == Reduced(Times(SteadyDelay, Number(13, 10)))

\* C37: with natural variations, for every speed from 10 to 200 and every
\* draw of Math.random(), the delay returned is max(50, baseDelay * f) for
\* a factor f from 0.7 to 1.3, with baseDelay = 60000 / (wpm * 5): it is at
\* least 50, at least 0.7 * baseDelay and at most max(50, 1.3 * baseDelay)
C37_VariedDelayWithinThirtyPercent ==
    (timing.pc = "returned" /\ timing.naturalVariations)
    => /\ AtLeast(VariedDelay, Number(50, 1))
       /\ AtLeast(VariedDelay, LowestDelay)
       /\ AtLeast(MathMax(Number(50, 1), HighestDelay), VariedDelay)

\* C37 witness: at 60 words a minute with natural variations and the draw
\* 0, the call has returned 140 ms, 0.7 times the 200 ms of the steady
\* delay
C37_Witness ==
    /\ timing.pc = "returned"
    /\ timing.wpm = 60 /\ timing.naturalVariations
    /\ timing.random.num = 0
    /\ VariedDelay = Number(140, 1)
    /\ VariedDelay = LowestDelay

(***************************************************************************)
(* Properties of the popup controller                                      *)
(***************************************************************************)
\* C38: in every state of the popup, whatever the order in which its
\* handlers, their awaits and the engine's messages are run, isPaused
\* implies isRunning, and once typingComplete, typingError or typingStopped
\* has been handled both flags are false until a startFlow succeeds
C38_PausedImpliesRunning ==
    /\ popup.isPaused => popup.isRunning
    /\ popup.settled => ~popup.isRunning /\ ~popup.isPaused

(***************************************************************************)
(* Properties of simulateKeyPress                                          *)
(***************************************************************************)
\* the target the order of preference names for the followed call: the body
\* of the document of the editor iframe, else the window of the iframe,
\* else the focused element, else the document
PreferredTarget ==
    LET iframe == pressing.editor = "IFRAME"
    IN  IF iframe /\ pressing.frame.contentDocument = "body"
        THEN "iframeBody"
        ELSE IF iframe /\ pressing.frame.contentWindow = "window"
        THEN "iframeWindow"
        ELSE IF pressing.activeElement = "element" THEN "activeElement"
        ELSE "document"

\* C39: a simulateKeyPress call returns (it does not throw) having
\* dispatched keydown, keypress and keyup, in this order, all to the one
\* target the order of preference names; when a dispatch throws, the
\* events before it were dispatched so and the call still returns
C39_ThreeEventsToOneTarget ==
    pressing.pc # "called"
    => /\ pressing.pc = "returned"
       /\ pressing.fails = 0 => Len(pressing.dispatched) = 3
       /\ Len(pressing.dispatched) <= 3
       /\ \A i \in DOMAIN pressing.dispatched :
             /\ pressing.dispatched[i].type = KeyEvents[i]
             /\ pressing.dispatched[i].target = PreferredTarget

\* C39 witness: the editor is an iframe whose document has no body, an
\* element has the focus, and the call has dispatched the three events to
\* the window of the iframe
C39_Witness ==
    /\ pressing.pc = "returned"
    /\ pressing.editor = "IFRAME"
    /\ pressing.frame.contentDocument = "noBody"
    /\ pressing.activeElement = "element"
    /\ Len(pressing.dispatched) = 3
    /\ \A i \in 1..3 : pressing.dispatched[i].target = "iframeWindow"

====
